---- MODULE Spec2Model ----
(***************************************************************************)
(* Model of notebooks/shap-complete.ipynb: the synthetic cohort generator  *)
(* (generate_healthy / generate_infected), the dataset construction and    *)
(* the train/test split of cell 7, and the stages that follow them.        *)
(*                                                                         *)
(* Numbers are fixed-point integers, one unit per column:                  *)
(*   systolic_pressure                      1                              *)
(*   ratio draw, hence diastolic_pressure   1/300  (2/3 = 200, 0.01 = 3)   *)
(*   body temperatures                      1/100                          *)
(*   respiration rates, pulse factor        1/10                           *)
(*   pulse rates (respiration * factor)     1/100                          *)
(* A standard normal deviate is an integer in -6..6 produced by the        *)
(* generator state; Normal(loc, scale) is loc + scale * deviate.           *)
(***************************************************************************)
EXTENDS Integers, Sequences, FiniteSets, TLC

VARIABLES
  pc,          \* the statement of the notebook that runs next
  error,       \* the exception that ended the run, "" while there is none
  rng,         \* numpy's global generator: its state and the calls made on it
  seed,        \* the argument of np.random.seed
  n_healthy,   \* the argument of generate_healthy
  n_infected,  \* the argument of generate_infected
  healthy,     \* cell 7: healthy
  infected,    \* cell 7: infected
  sampled,     \* the anonymous draws of the two generator calls
  data,        \* cell 7: data
  X_train, X_test, y_train, y_test,   \* cell 7: the four results of the split
  prev,        \* what the previous run of cells 3-7 produced
  clf,         \* cell 23: the fitted classifier
  values, names,   \* cell 32: the bars of the feature-importance chart
  shap_values, \* cell 34: the attributions, one row per row of X_test
  index,       \* cells 42-46: the test record picked for a local explanation
  plots        \* the attribution rows and feature rows handed to each summary plot

(* what the cells after the split compute *)
later == <<clf, values, names, shap_values, index, plots>>

vars == <<pc, error, rng, seed, n_healthy, n_infected, healthy,
          infected, sampled, data, X_train, X_test, y_train, y_test, prev, later>>

(* ------------------------------ bounds --------------------------------- *)
MaxPatients == 4
MaxSeed == 1
MaxEntropy == 2

(* importances a fitted model gives a feature range over 0..MaxImportance *)
MaxImportance == 2

(* -------------------- program constants (cell 5) ----------------------- *)
SYSTOLIC_PRESSURE == 105
SYSTOLIC_PRESSURE_STD == 10
SYSTOLIC_TO_DIASTOLIC_FACTOR == 200
SYSTOLIC_TO_DIASTOLIC_FACTOR_STD == 3
MEAN_BODY_TEMP == 3670
MEAN_BODY_TEMP_STD == 5
BODY_TEMP_NOISE == 0
BODY_TEMP_NOISE_STD == 1
MEAN_RESPIRATION_RATE == 140
MEAN_RESPIRATION_RATE_STD == 8
RESPIRATION_RATE_NOISE == 0
RESPIRATION_RATE_NOISE_STD == 5
RESPIRATION_RATE_NOISE_INFECTED == 15
RESPIRATION_RATE_NOISE_STD_INFECTED == 4
RESPIRATION_TO_PULSE_FACTOR == 55
RESPIRATION_TO_PULSE_FACTOR_NOISE == 2
PULSE_RATE_NOISE == 0
PULSE_RATE_NOISE_STD == 400
PULSE_RATE_NOISE_INFECTED == 1000
PULSE_RATE_NOISE_STD_INFECTED == 500

(* test_size=0.2 of cell 7, in percent; random_state=0 of cell 7 *)
TEST_SIZE == 20
RANDOM_STATE == 0

COLUMNS ==
  << "systolic_pressure", "diastolic_pressure", "daily_avg_body_temperature",
     "body_temperature", "daily_avg_respiration_rate", "respiration_rate",
     "daily_avg_pulse_rate", "pulse_rate", "infection" >>

(* ---------------- the pseudo-random generator (numpy) ------------------ *)
(* The state space of a generator. *)
RngStates == 0..63

(* np.random.seed(s) / RandomState(s): the state is a function of s only.  *)
SeedState(s) == (21 * s + 7) % 64

(* The state of a generator nobody seeded: numpy seeds it from the         *)
(* operating system's entropy e.                                           *)
Unseeded(e) == [st |-> SeedState(e), log |-> <<>>]

(* One step of the generator. *)
NextState(st) == (5 * st + 3) % 64

(* k steps of the generator from a state of its state space *)
RECURSIVE Advance(_, _)
Advance(st, k) ==
  IF k <= 0 \/ st \notin RngStates THEN st ELSE Advance(NextState(st), k - 1)

(* The standard normal deviate a state yields. *)
Gauss(st) == ((st \div 4) % 13) - 6

(* A generator g is its state g.st together with g.log, the record of the  *)
(* calls made on it so far.                                                *)
Call(op, loc, scale, size) == [op |-> op, loc |-> loc, scale |-> scale, size |-> size]

(* a seeding call that leaves the state as it was *)
SeededInVain(g, s) == [st |-> g.st, log |-> Append(g.log, Call("seed", s, 0, 0))]

(* np.random.seed(s) on the generator g *)
Seeded(g, s) == [st |-> SeedState(s), log |-> Append(g.log, Call("seed", s, 0, 0))]

(* np.random.normal that takes a negative size for an empty one *)
NormalUnchecked(loc, scale, size, g) ==
  [ raised |-> FALSE,
    out |-> [i \in 1..size |-> loc + scale * Gauss(Advance(g.st, i))],
    g   |-> [st  |-> Advance(g.st, size),
             log |-> Append(g.log, Call("normal", loc, scale, size))] ]

(* np.random.normal(loc, scale, size) on the generator g: a negative size   *)
(* raises ValueError and leaves g alone; otherwise the size draws, and the *)
(* generator as the call leaves it.                                        *)
Normal(loc, scale, size, g) ==
  IF size < 0
  THEN [raised |-> TRUE, out |-> <<>>, g |-> g]
  ELSE [ raised |-> FALSE,
         out |-> [i \in 1..size |-> loc + scale * Gauss(Advance(g.st, i))],
         g   |-> [st  |-> Advance(g.st, size),
                  log |-> Append(g.log, Call("normal", loc, scale, size))] ]

(* ------------------------------ tables --------------------------------- *)
(* A pandas DataFrame: column names, row labels, and the cells by row.     *)
NoFrame == [columns |-> <<>>, index |-> <<>>, values |-> <<>>]

(* np.stack with axis=0 instead of axis=1: one row per array *)
StackAxis0(arrays, n) == [c \in 1..Len(arrays) |-> arrays[c]]

(* np.stack(arrays, axis=1) of arrays of length n *)
Stack(arrays, n) ==
  [i \in 1..n |-> [c \in 1..Len(arrays) |-> arrays[c][i]]]

(* pd.DataFrame(matrix, columns=cols): default index 0..n-1 *)
DataFrame(matrix, cols) ==
  [columns |-> cols, index |-> [i \in 1..Len(matrix) |-> i - 1], values |-> matrix]

NoDraws == [ratio |-> <<>>, temp_noise |-> <<>>, resp_noise |-> <<>>,
            factor |-> <<>>, pulse_noise |-> <<>>]

(* a product with one scalar draw (the size argument forgotten) *)
MulScalar(a, b) == [i \in 1..Len(a) |-> a[i] * b[1]]

(* each element of a times the draw of another record *)
MulReversed(a, b) == [i \in 1..Len(a) |-> a[i] * b[Len(a) + 1 - i]]

(* elementwise a * b of two arrays of equal length *)
Mul(a, b) == [i \in 1..Len(a) |-> a[i] * b[i]]

(* elementwise a + b of two arrays of equal length *)
Add(a, b) == [i \in 1..Len(a) |-> a[i] + b[i]]

(* the label array of the other regime: np.zeros where np.ones is meant *)
OnesAsZeros(n) == [i \in 1..n |-> 0]

(* np.zeros(n) *)
Zeros(n) == [i \in 1..n |-> 0]

(* np.ones(n) *)
Ones(n) == [i \in 1..n |-> 1]

(* ----------------------- the generators (cell 5) ----------------------- *)
(* generate_healthy with the ratio drawn before the systolic pressure *)
generate_healthy_ratio_first(n_patients, g) ==
  LET d2 == Normal(SYSTOLIC_TO_DIASTOLIC_FACTOR, SYSTOLIC_TO_DIASTOLIC_FACTOR_STD,
                   n_patients, g)
      d1 == Normal(SYSTOLIC_PRESSURE, SYSTOLIC_PRESSURE_STD, n_patients, d2.g)
      systolic_pressure == d1.out
      diastolic_pressure == Mul(systolic_pressure, d2.out)
      d3 == Normal(MEAN_BODY_TEMP, MEAN_BODY_TEMP_STD, n_patients, d1.g)
      daily_avg_body_temperature == d3.out
      d4 == Normal(BODY_TEMP_NOISE, BODY_TEMP_NOISE_STD, n_patients, d3.g)
      body_temperature == Add(daily_avg_body_temperature, d4.out)
      d5 == Normal(MEAN_RESPIRATION_RATE, MEAN_RESPIRATION_RATE_STD, n_patients, d4.g)
      daily_avg_respiration_rate == d5.out
      d6 == Normal(RESPIRATION_RATE_NOISE, RESPIRATION_RATE_NOISE_STD, n_patients, d5.g)
      respiration_rate == Add(daily_avg_respiration_rate, d6.out)
      d7 == Normal(RESPIRATION_TO_PULSE_FACTOR, RESPIRATION_TO_PULSE_FACTOR_NOISE,
                   n_patients, d6.g)
      daily_avg_pulse_rate == Mul(daily_avg_respiration_rate, d7.out)
      d8 == Normal(PULSE_RATE_NOISE, PULSE_RATE_NOISE_STD, n_patients, d7.g)
      pulse_rate == Add(daily_avg_pulse_rate, d8.out)
      infection == Zeros(n_patients)
      patients ==
        DataFrame(
          Stack(<< systolic_pressure, diastolic_pressure, daily_avg_body_temperature,
                   body_temperature, daily_avg_respiration_rate, respiration_rate,
                   daily_avg_pulse_rate, pulse_rate, infection >>, n_patients),
          COLUMNS)
  IN IF d2.raised
     THEN [raised |-> TRUE, patients |-> NoFrame, g |-> g, draws |-> NoDraws]
     ELSE
     [ raised |-> FALSE,
       patients |-> patients,
       g |-> d8.g,
       draws |-> [ratio |-> d2.out, temp_noise |-> d4.out, resp_noise |-> d6.out,
                  factor |-> d7.out, pulse_noise |-> d8.out] ]

(* generate_healthy(n_patients) run on the generator g: whether it raised,  *)
(* the table returned, the generator afterwards, and the anonymous draws   *)
(* the function combined with its base columns.                            *)
generate_healthy(n_patients, g) ==
  LET d1 == Normal(SYSTOLIC_PRESSURE, SYSTOLIC_PRESSURE_STD, n_patients, g)
      systolic_pressure == d1.out
      d2 == Normal(SYSTOLIC_TO_DIASTOLIC_FACTOR, SYSTOLIC_TO_DIASTOLIC_FACTOR_STD,
                   n_patients, d1.g)
      diastolic_pressure == Mul(systolic_pressure, d2.out)
      d3 == Normal(MEAN_BODY_TEMP, MEAN_BODY_TEMP_STD, n_patients, d2.g)
      daily_avg_body_temperature == d3.out
      d4 == Normal(BODY_TEMP_NOISE, BODY_TEMP_NOISE_STD, n_patients, d3.g)
      body_temperature == Add(daily_avg_body_temperature, d4.out)
      d5 == Normal(MEAN_RESPIRATION_RATE, MEAN_RESPIRATION_RATE_STD, n_patients, d4.g)
      daily_avg_respiration_rate == d5.out
      d6 == Normal(RESPIRATION_RATE_NOISE, RESPIRATION_RATE_NOISE_STD, n_patients, d5.g)
      respiration_rate == Add(daily_avg_respiration_rate, d6.out)
      d7 == Normal(RESPIRATION_TO_PULSE_FACTOR, RESPIRATION_TO_PULSE_FACTOR_NOISE,
                   n_patients, d6.g)
      daily_avg_pulse_rate == Mul(daily_avg_respiration_rate, d7.out)
      d8 == Normal(PULSE_RATE_NOISE, PULSE_RATE_NOISE_STD, n_patients, d7.g)
      pulse_rate == Add(daily_avg_pulse_rate, d8.out)
      infection == Zeros(n_patients)
      patients ==
        DataFrame(
          Stack(<< systolic_pressure, diastolic_pressure, daily_avg_body_temperature,
                   body_temperature, daily_avg_respiration_rate, respiration_rate,
                   daily_avg_pulse_rate, pulse_rate, infection >>, n_patients),
          COLUMNS)
  IN IF d1.raised
     THEN [raised |-> TRUE, patients |-> NoFrame, g |-> g, draws |-> NoDraws]
     ELSE
     [ raised |-> FALSE,
       patients |-> patients,
       g |-> d8.g,
       draws |-> [ratio |-> d2.out, temp_noise |-> d4.out, resp_noise |-> d6.out,
                  factor |-> d7.out, pulse_noise |-> d8.out] ]

(* the infected cohort drawn by the healthy generator *)
generate_infected_as_healthy(n_patients, g) == generate_healthy(n_patients, g)

(* generate_infected(n_patients), likewise *)
generate_infected(n_patients, g) ==
  LET d1 == Normal(SYSTOLIC_PRESSURE, SYSTOLIC_PRESSURE_STD, n_patients, g)
      systolic_pressure == d1.out
      d2 == Normal(SYSTOLIC_TO_DIASTOLIC_FACTOR, SYSTOLIC_TO_DIASTOLIC_FACTOR_STD,
                   n_patients, d1.g)
      diastolic_pressure == Mul(systolic_pressure, d2.out)
      d3 == Normal(MEAN_BODY_TEMP, MEAN_BODY_TEMP_STD, n_patients, d2.g)
      daily_avg_body_temperature == d3.out
      d4 == Normal(BODY_TEMP_NOISE, BODY_TEMP_NOISE_STD, n_patients, d3.g)
      body_temperature == Add(daily_avg_body_temperature, d4.out)
      d5 == Normal(MEAN_RESPIRATION_RATE, MEAN_RESPIRATION_RATE_STD, n_patients, d4.g)
      daily_avg_respiration_rate == d5.out
      d6 == Normal(RESPIRATION_RATE_NOISE_INFECTED, RESPIRATION_RATE_NOISE_STD_INFECTED,
                   n_patients, d5.g)
      respiration_rate == Add(daily_avg_respiration_rate, d6.out)
      d7 == Normal(RESPIRATION_TO_PULSE_FACTOR, RESPIRATION_TO_PULSE_FACTOR_NOISE,
                   n_patients, d6.g)
      daily_avg_pulse_rate == Mul(daily_avg_respiration_rate, d7.out)
      d8 == Normal(PULSE_RATE_NOISE_INFECTED, PULSE_RATE_NOISE_STD_INFECTED,
                   n_patients, d7.g)
      pulse_rate == Add(daily_avg_pulse_rate, d8.out)
      infection == Ones(n_patients)
      patients ==
        DataFrame(
          Stack(<< systolic_pressure, diastolic_pressure, daily_avg_body_temperature,
                   body_temperature, daily_avg_respiration_rate, respiration_rate,
                   daily_avg_pulse_rate, pulse_rate, infection >>, n_patients),
          COLUMNS)
  IN IF d1.raised
     THEN [raised |-> TRUE, patients |-> NoFrame, g |-> g, draws |-> NoDraws]
     ELSE
     [ raised |-> FALSE,
       patients |-> patients,
       g |-> d8.g,
       draws |-> [ratio |-> d2.out, temp_noise |-> d4.out, resp_noise |-> d6.out,
                  factor |-> d7.out, pulse_noise |-> d8.out] ]

(* ------------------- dataset and split (cell 7) ------------------------ *)
(* pd.concat((a, b)) of two frames with the same columns *)
Concat(a, b) ==
  [columns |-> a.columns, index |-> a.index \o b.index, values |-> a.values \o b.values]

(* the concatenation without reset_index: the row labels of the parts stay *)
KeepIndex(df) == df

(* df.reset_index(drop=True) *)
ResetIndex(df) == [df EXCEPT !.index = [i \in 1..Len(df.values) |-> i - 1]]

(* the position of a column name *)
Loc(cols, name) == CHOOSE c \in 1..Len(cols) : cols[c] = name

Without(s, p) == [k \in 1..(Len(s) - 1) |-> IF k < p THEN s[k] ELSE s[k + 1]]

(* df.drop(name, axis=1) *)
Drop(df, name) ==
  LET p == Loc(df.columns, name)
  IN [columns |-> Without(df.columns, p),
      index   |-> df.index,
      values  |-> [i \in 1..Len(df.values) |-> Without(df.values[i], p)]]

(* df[name].values *)
Column(df, name) ==
  LET p == Loc(df.columns, name) IN [i \in 1..Len(df.values) |-> df.values[i][p]]

(* df.iloc[positions], positions counted from 0 *)
ILoc(df, positions) ==
  [columns |-> df.columns,
   index   |-> [k \in 1..Len(positions) |-> df.index[positions[k] + 1]],
   values  |-> [k \in 1..Len(positions) |-> df.values[positions[k] + 1]]]

(* the labels cut in order instead of taken at the shuffled positions *)
TakeHead(array, positions) == SubSeq(array, 1, Len(positions))

(* array[positions], positions counted from 0 *)
Take(array, positions) == [k \in 1..Len(positions) |-> array[positions[k] + 1]]

Swap(x, i, j) == [x EXCEPT ![i] = x[j], ![j] = x[i]]

(* RandomState.shuffle: for i from the last position down to 1, exchange   *)
(* x[i] with x[j], j drawn from 0..i (positions counted from 0).           *)
RECURSIVE Shuffle(_, _, _)
Shuffle(x, i, st) ==
  IF i < 1 THEN x
  ELSE LET st2 == NextState(st)
           j == (st2 \div 4) % (i + 1)
       IN Shuffle(Swap(x, i + 1, j + 1), i - 1, st2)

(* RandomState(random_state).permutation(n): 0..n-1 shuffled by a private  *)
(* generator seeded with random_state.                                     *)
Permutation(random_state, n) ==
  Shuffle([i \in 1..n |-> i - 1], n - 1, SeedState(random_state))

(* floor(test_size * n_samples) *)
NTestFloor(n_samples) == (TEST_SIZE * n_samples) \div 100

(* ceil(test_size * n_samples) *)
NTest(n_samples) == (TEST_SIZE * n_samples + 99) \div 100

(* a split whose train slice starts one entry early *)
train_test_split_overlap(X, y, random_state) ==
  LET n_samples == Len(X.values)
      n_test == (TEST_SIZE * n_samples + 99) \div 100
      n_train == n_samples - n_test
      permutation ==
        Shuffle([i \in 1..n_samples |-> i - 1], n_samples - 1, SeedState(random_state))
      test == SubSeq(permutation, 1, n_test)
      train == SubSeq(permutation, n_test, n_test + n_train - 1)
  IN IF n_train = 0
     THEN [raised |-> TRUE, X_train |-> NoFrame, X_test |-> NoFrame,
           y_train |-> <<>>, y_test |-> <<>>]
     ELSE [raised |-> FALSE,
           X_train |-> ILoc(X, train), X_test |-> ILoc(X, test),
           y_train |-> [k \in 1..Len(train) |-> y[train[k] + 1]],
           y_test |-> [k \in 1..Len(test) |-> y[test[k] + 1]]]

(* train_test_split(X, y, test_size=0.2, random_state=random_state): raises *)
(* ValueError when the train set would be empty; otherwise the first       *)
(* n_test entries of the permutation are the test rows, the rest train.    *)
train_test_split(X, y, random_state) ==
  LET n_samples == Len(X.values)
      n_test == NTest(n_samples)
      n_train == n_samples - n_test
      permutation == Permutation(random_state, n_samples)
      test == SubSeq(permutation, 1, n_test)
      train == SubSeq(permutation, n_test + 1, n_test + n_train)
  IN IF n_train = 0
     THEN [raised |-> TRUE, X_train |-> NoFrame, X_test |-> NoFrame,
           y_train |-> <<>>, y_test |-> <<>>]
     ELSE [raised |-> FALSE,
           X_train |-> ILoc(X, train), X_test |-> ILoc(X, test),
           y_train |-> Take(y, train), y_test |-> Take(y, test)]

(* ------------------------------ the run -------------------------------- *)
NoRun == [valid |-> FALSE, seed |-> 0, n_healthy |-> 0, n_infected |-> 0,
          data |-> NoFrame, X_train |-> NoFrame, X_test |-> NoFrame,
          y_train |-> <<>>, y_test |-> <<>>]

(* no classifier fitted yet *)
NoClassifier == [feature_importances_ |-> <<>>, predict_test |-> <<>>]

Seeds == 0..MaxSeed
Counts == (-1)..MaxPatients
Entropy == 0..MaxEntropy

(* A fresh kernel: nothing computed, the global generator unseeded. *)
Init ==
  /\ pc = "seed"
  /\ error = ""
  /\ \E e \in Entropy : rng = Unseeded(e)
  /\ seed = 0
  /\ n_healthy = 0
  /\ n_infected = 0
  /\ healthy = NoFrame
  /\ infected = NoFrame
  /\ sampled = [healthy |-> NoDraws, infected |-> NoDraws]
  /\ data = NoFrame
  /\ X_train = NoFrame
  /\ X_test = NoFrame
  /\ y_train = <<>>
  /\ y_test = <<>>
  /\ prev = NoRun
  /\ clf = NoClassifier
  /\ values = <<>>
  /\ names = <<>>
  /\ shap_values = <<>>
  /\ index = -1
  /\ plots = <<>>

Running(stmt) == pc = stmt /\ error = ""

(* cell 3: np.random.seed(0); the seed is an input of the run *)
Seed(s) ==
  /\ Running("seed")
  /\ rng' = Seeded(rng, s)
  /\ seed' = s
  /\ pc' = "generate_healthy"
  /\ UNCHANGED <<error, n_healthy, n_infected, healthy, infected, sampled, data,
                 X_train, X_test, y_train, y_test, prev, later>>

(* cell 7: healthy = generate_healthy(900); the count is an input *)
GenerateHealthy(n) ==
  /\ Running("generate_healthy")
  /\ n_healthy' = n
  /\ LET r == generate_healthy(n, rng)
     IN IF r.raised
        THEN /\ error' = "ValueError"
             /\ UNCHANGED <<pc, rng, healthy, sampled>>
        ELSE /\ healthy' = r.patients
             /\ rng' = r.g
             /\ sampled' = [sampled EXCEPT !.healthy = r.draws]
             /\ pc' = "generate_infected"
             /\ UNCHANGED error
  /\ UNCHANGED <<seed, n_infected, infected, data, X_train, X_test, y_train, y_test, prev, later>>

(* cell 7: infected = generate_infected(100); the count is an input *)
GenerateInfected(n) ==
  /\ Running("generate_infected")
  /\ n_infected' = n
  /\ LET r == generate_infected(n, rng)
     IN IF r.raised
        THEN /\ error' = "ValueError"
             /\ UNCHANGED <<pc, rng, infected, sampled>>
        ELSE /\ infected' = r.patients
             /\ rng' = r.g
             /\ sampled' = [sampled EXCEPT !.infected = r.draws]
             /\ pc' = "concat"
             /\ UNCHANGED error
  /\ UNCHANGED <<seed, n_healthy, healthy, data, X_train, X_test, y_train, y_test, prev, later>>

(* cell 7: data = pd.concat((healthy, infected)).reset_index(drop=True) *)
BuildData ==
  /\ Running("concat")
  /\ data' = ResetIndex(Concat(healthy, infected))
  /\ pc' = "split"
  /\ UNCHANGED <<error, rng, seed, n_healthy, n_infected, healthy, infected, sampled,
                 X_train, X_test, y_train, y_test, prev, later>>

(* a split that seeds the global generator with its random_state *)
SplitReseeding ==
  /\ Running("split")
  /\ rng' = Seeded(rng, RANDOM_STATE)
  /\ LET r == train_test_split(Drop(data, "infection"), Column(data, "infection"),
                               RANDOM_STATE)
     IN IF r.raised
        THEN /\ error' = "ValueError"
             /\ UNCHANGED <<pc, X_train, X_test, y_train, y_test>>
        ELSE /\ X_train' = r.X_train
             /\ X_test' = r.X_test
             /\ y_train' = r.y_train
             /\ y_test' = r.y_test
             /\ pc' = "fit"
             /\ UNCHANGED error
  /\ UNCHANGED <<seed, n_healthy, n_infected, healthy, infected, sampled, data, prev, later>>

(* the split made on a dataset whose label column is dropped in place *)
SplitInPlace ==
  /\ Running("split")
  /\ LET r == train_test_split(Drop(data, "infection"), Column(data, "infection"),
                               RANDOM_STATE)
     IN IF r.raised
        THEN /\ error' = "ValueError"
             /\ UNCHANGED <<pc, X_train, X_test, y_train, y_test>>
        ELSE /\ X_train' = r.X_train
             /\ X_test' = r.X_test
             /\ y_train' = r.y_train
             /\ y_test' = r.y_test
             /\ pc' = "fit"
             /\ UNCHANGED error
  /\ data' = Drop(data, "infection")
  /\ UNCHANGED <<rng, seed, n_healthy, n_infected, healthy, infected, sampled, prev, later>>

(* cell 7: X_train, X_test, y_train, y_test = train_test_split(...) *)
Split ==
  /\ Running("split")
  /\ LET r == train_test_split(Drop(data, "infection"), Column(data, "infection"),
                               RANDOM_STATE)
     IN IF r.raised
        THEN /\ error' = "ValueError"
             /\ UNCHANGED <<pc, X_train, X_test, y_train, y_test>>
        ELSE /\ X_train' = r.X_train
             /\ X_test' = r.X_test
             /\ y_train' = r.y_train
             /\ y_test' = r.y_test
             /\ pc' = "fit"
             /\ UNCHANGED error
  /\ UNCHANGED <<rng, seed, n_healthy, n_infected, healthy, infected, sampled, data, prev, later>>

(* ----------------- model and explanations (cells 23-48) ----------------- *)
(* The importances a fit can give in a run: no feature used (one class in  *)
(* the training labels), or all importance on the one feature split on.    *)
FittedImportances ==
  {[c \in 1..8 |-> 0]} \cup {[c \in 1..8 |-> IF c = f THEN 1 ELSE 0] : f \in 1..8}

(* cell 23: clf = XGBClassifier(..., random_state=0); clf.fit(X_train, y_train) *)
(* What the fit learns is the library's: any importances, any predicted    *)
(* class for each row of X_test.                                           *)
Fit ==
  /\ Running("fit")
  /\ \E imp \in FittedImportances :
       \E pred \in [1..Len(X_test.values) -> {0, 1}] :
         clf' = [feature_importances_ |-> imp, predict_test |-> pred]
  /\ pc' = "importance"
  /\ UNCHANGED <<error, rng, seed, n_healthy, n_infected, healthy, infected, sampled,
                 data, X_train, X_test, y_train, y_test, prev,
                 values, names, shap_values, index, plots>>

(* Python's order of the column names (str comparison) *)
ALPHABETICAL ==
  << "body_temperature", "daily_avg_body_temperature", "daily_avg_pulse_rate",
     "daily_avg_respiration_rate", "diastolic_pressure", "infection", "pulse_rate",
     "respiration_rate", "systolic_pressure" >>

(* Python's order of (importance, name) tuples *)
TupleLess(a, b) ==
  \/ a[1] < b[1]
  \/ a[1] = b[1] /\ Loc(ALPHABETICAL, a[2]) < Loc(ALPHABETICAL, b[2])

(* sorted(numbers) *)
RECURSIVE SortedNumbers(_)
SortedNumbers(xs) ==
  IF xs = <<>> THEN <<>>
  ELSE LET rest == SortedNumbers(Tail(xs))
           below == SelectSeq(rest, LAMBDA v : v <= Head(xs))
           above == SelectSeq(rest, LAMBDA v : v > Head(xs))
       IN below \o <<Head(xs)>> \o above

(* sorted(tuples) *)
RECURSIVE SortedTuples(_)
SortedTuples(ts) ==
  IF ts = <<>> THEN <<>>
  ELSE LET rest == SortedTuples(Tail(ts))
           below == SelectSeq(rest, LAMBDA t : TupleLess(t, Head(ts)))
           above == SelectSeq(rest, LAMBDA t : ~TupleLess(t, Head(ts)))
       IN below \o <<Head(ts)>> \o above

(* zip(a, b) *)
Zip(a, b) ==
  LET n == IF Len(a) < Len(b) THEN Len(a) ELSE Len(b)
  IN [k \in 1..n |-> <<a[k], b[k]>>]

(* the feature columns in table order, whatever their importances *)
ColumnNames(importances, columns) == SubSeq(columns, 1, Len(columns) - 1)

(* cell 32: [x for _, x in sorted(zip(importances, columns[:-1]))] *)
ChartNames(importances, columns) ==
  LET pairs == SortedTuples(Zip(importances, SubSeq(columns, 1, Len(columns) - 1)))
  IN [k \in 1..Len(pairs) |-> pairs[k][2]]

(* cell 32: values = sorted(clf.feature_importances_); names = ...; plt.barh *)
FeatureImportance ==
  /\ Running("importance")
  /\ values' = SortedNumbers(clf.feature_importances_)
  /\ names' = ChartNames(clf.feature_importances_, data.columns)
  /\ pc' = "explain"
  /\ UNCHANGED <<error, rng, seed, n_healthy, n_infected, healthy, infected, sampled,
                 data, X_train, X_test, y_train, y_test, prev,
                 clf, shap_values, index, plots>>

(* explainer(X): one attribution row per row of X, known here by the label *)
(* of the record it explains.                                              *)
Explainer(X) == [k \in 1..Len(X.values) |-> [explains |-> X.index[k]]]

(* cell 34: explainer = shap.explainers.Exact(...); shap_values = explainer(X_test) *)
Explain ==
  /\ Running("explain")
  /\ shap_values' = Explainer(X_test)
  /\ pc' = "global_plots"
  /\ UNCHANGED <<error, rng, seed, n_healthy, n_infected, healthy, infected, sampled,
                 data, X_train, X_test, y_train, y_test, prev,
                 clf, values, names, index, plots>>

(* y == v, elementwise *)
Equals(y, v) == [k \in 1..Len(y) |-> y[k] = v]

(* np.where(mask)[0]: the positions, counted from 0, where mask holds *)
Where(mask) ==
  SelectSeq([k \in 1..Len(mask) |-> k - 1], LAMBDA q : mask[q + 1])

(* array[mask] and df.loc[mask, :] *)
Masked(array, mask) == Take(array, Where(mask))

LocMask(df, mask) == ILoc(df, Where(mask))

(* shap.summary_plot(attributions, features, plot_type="bar"): the bar     *)
(* plot takes the column names from features and averages the attribution *)
(* rows; it does not compare the numbers of rows. The hand-off is noted.   *)
summary_plot(log, cell, attributions, features) ==
  Append(log, [cell |-> cell,
               attributions |-> [k \in 1..Len(attributions) |-> attributions[k].explains],
               features |-> features.index])

(* cells 36, 38, 40: the global summary plots, of all test rows, of the    *)
(* healthy ones and of the infected ones                                   *)
GlobalPlots ==
  /\ Running("global_plots")
  /\ plots' =
       summary_plot(
         summary_plot(
           summary_plot(plots, 36, shap_values, X_test),
           38, Masked(shap_values, Equals(y_test, 0)), LocMask(X_test, Equals(y_test, 0))),
         40, Masked(shap_values, Equals(y_test, 1)), LocMask(X_test, Equals(y_test, 1)))
  /\ pc' = "local_infected"
  /\ UNCHANGED <<error, rng, seed, n_healthy, n_infected, healthy, infected, sampled,
                 data, X_train, X_test, y_train, y_test, prev,
                 clf, values, names, shap_values, index>>

(* cell 42: index = np.where(y_test == 1)[0][0]; summary_plot of that row  *)
LocalInfected ==
  /\ Running("local_infected")
  /\ LET found == Where(Equals(y_test, 1))
     IN IF found = <<>>
        THEN /\ error' = "IndexError"
             /\ UNCHANGED <<pc, index, plots>>
        ELSE /\ index' = found[1]
             /\ plots' = summary_plot(plots, 42, <<shap_values[found[1] + 1]>>,
                                      LocMask(X_test, Equals(y_test, 1)))
             /\ pc' = "local_healthy"
             /\ UNCHANGED error
  /\ UNCHANGED <<rng, seed, n_healthy, n_infected, healthy, infected, sampled,
                 data, X_train, X_test, y_train, y_test, prev,
                 clf, values, names, shap_values>>

(* cell 44: index = np.where(y_test == 0)[0][0]; summary_plot of that row  *)
LocalHealthy ==
  /\ Running("local_healthy")
  /\ LET found == Where(Equals(y_test, 0))
     IN IF found = <<>>
        THEN /\ error' = "IndexError"
             /\ UNCHANGED <<pc, index, plots>>
        ELSE /\ index' = found[1]
             /\ plots' = summary_plot(plots, 44, <<shap_values[found[1] + 1]>>,
                                      LocMask(X_test, Equals(y_test, 1)))
             /\ pc' = "local_error"
             /\ UNCHANGED error
  /\ UNCHANGED <<rng, seed, n_healthy, n_infected, healthy, infected, sampled,
                 data, X_train, X_test, y_train, y_test, prev,
                 clf, values, names, shap_values>>

(* clf.predict(X_test) != y_test, elementwise *)
Mispredicted == [k \in 1..Len(y_test) |-> clf.predict_test[k] # y_test[k]]

(* np.argwhere(mask)[1][0]: the second position where mask holds *)
SecondWhere(mask) == Where(mask)[2]

(* cell 46: index = np.argwhere(clf.predict(X_test) != y_test)[1][0];      *)
(* summary_plot of that row                                                *)
LocalError ==
  /\ Running("local_error")
  /\ IF Len(Where(Mispredicted)) < 2
     THEN /\ error' = "IndexError"
          /\ UNCHANGED <<pc, index, plots>>
     ELSE /\ index' = SecondWhere(Mispredicted)
          /\ plots' = summary_plot(plots, 46, <<shap_values[SecondWhere(Mispredicted) + 1]>>,
                                   LocMask(X_test, Equals(y_test, 1)))
          /\ pc' = "plot"
          /\ UNCHANGED error
  /\ UNCHANGED <<rng, seed, n_healthy, n_infected, healthy, infected, sampled,
                 data, X_train, X_test, y_train, y_test, prev,
                 clf, values, names, shap_values>>

(* cell 48: shap.summary_plot(shap_values.values[..., 1], X_test) *)
Plot ==
  /\ Running("plot")
  /\ plots' = summary_plot(plots, 48, shap_values, X_test)
  /\ pc' = "done"
  /\ UNCHANGED <<error, rng, seed, n_healthy, n_infected, healthy, infected, sampled,
                 data, X_train, X_test, y_train, y_test, prev,
                 clf, values, names, shap_values, index>>

(* Cell 7 has run; the kernel is restarted and the notebook run again from *)
(* the top. What cells 3-7 produced is kept for comparison.                *)
Restart ==
  /\ Running("fit")
  /\ prev' = [valid |-> TRUE, seed |-> seed, n_healthy |-> n_healthy,
              n_infected |-> n_infected, data |-> data,
              X_train |-> X_train, X_test |-> X_test,
              y_train |-> y_train, y_test |-> y_test]
  /\ pc' = "seed"
  /\ error' = ""
  /\ \E e \in Entropy : rng' = Unseeded(e)
  /\ seed' = 0
  /\ n_healthy' = 0
  /\ n_infected' = 0
  /\ healthy' = NoFrame
  /\ infected' = NoFrame
  /\ sampled' = [healthy |-> NoDraws, infected |-> NoDraws]
  /\ data' = NoFrame
  /\ X_train' = NoFrame
  /\ X_test' = NoFrame
  /\ y_train' = <<>>
  /\ y_test' = <<>>
  /\ UNCHANGED later

(* one run of the notebook, top to bottom *)
Next ==
  \/ \E s \in Seeds : Seed(s)
  \/ \E n \in Counts : GenerateHealthy(n)
  \/ \E n \in Counts : GenerateInfected(n)
  \/ BuildData
  \/ Split
  \/ Fit
  \/ FeatureImportance
  \/ Explain
  \/ GlobalPlots
  \/ LocalInfected
  \/ LocalHealthy
  \/ LocalError
  \/ Plot

Spec == Init /\ [][Next]_vars

(* cells 3-7 run, and run again after a restart of the kernel *)
NextRerun ==
  \/ \E s \in Seeds : Seed(s)
  \/ \E n \in Counts : GenerateHealthy(n)
  \/ \E n \in Counts : GenerateInfected(n)
  \/ BuildData
  \/ Split
  \/ Restart

SpecRerun == Init /\ [][NextRerun]_vars

(* cell 32 run on any fitted model: the state after cells 3-23 of the run  *)
(* with seed 0 and two records of each cohort, the model giving each       *)
(* feature any importance and predicting every test record healthy.       *)
InitChart ==
  LET h == generate_healthy(2, Seeded(Unseeded(0), 0))
      f == generate_infected(2, h.g)
      d == ResetIndex(Concat(h.patients, f.patients))
      r == train_test_split(Drop(d, "infection"), Column(d, "infection"), RANDOM_STATE)
  IN /\ pc = "importance"
     /\ error = ""
     /\ rng = f.g
     /\ seed = 0
     /\ n_healthy = 2
     /\ n_infected = 2
     /\ healthy = h.patients
     /\ infected = f.patients
     /\ sampled = [healthy |-> h.draws, infected |-> f.draws]
     /\ data = d
     /\ X_train = r.X_train
     /\ X_test = r.X_test
     /\ y_train = r.y_train
     /\ y_test = r.y_test
     /\ prev = NoRun
     /\ \E imp \in [1..8 -> 0..MaxImportance] :
          clf = [feature_importances_ |-> imp,
                 predict_test |-> [k \in 1..Len(r.X_test.values) |-> 0]]
     /\ values = <<>>
     /\ names = <<>>
     /\ shap_values = <<>>
     /\ index = -1
     /\ plots = <<>>

NextChart == FeatureImportance

SpecChart == InitChart /\ [][NextChart]_vars

(* ------------------------------ claims --------------------------------- *)
Statements == << "seed", "generate_healthy", "generate_infected", "concat", "split",
                 "fit", "importance", "explain", "global_plots", "local_infected",
                 "local_healthy", "local_error", "plot", "done" >>

Position(stmt) == CHOOSE k \in 1..Len(Statements) : Statements[k] = stmt

(* the statement stmt has run and has not raised *)
Past(stmt) == Position(pc) > Position(stmt)

(* the statement stmt has run and has raised *)
Raised(stmt) == pc = stmt /\ error # ""

NineColumns ==
  << "systolic_pressure", "diastolic_pressure", "daily_avg_body_temperature",
     "body_temperature", "daily_avg_respiration_rate", "respiration_rate",
     "daily_avg_pulse_rate", "pulse_rate", "infection" >>

EightColumns == SubSeq(NineColumns, 1, 8)

Range(f) == {f[k] : k \in DOMAIN f}

IsTable(df, n, cols) ==
  /\ df.columns = cols
  /\ Len(df.values) = n
  /\ Len(df.index) = n
  /\ \A i \in 1..n :
       /\ DOMAIN df.values[i] = 1..Len(cols)
       /\ \A c \in 1..Len(cols) : df.values[i][c] \in Int

(* C1: for every n >= 0, n = 0 included, neither generator fails, and each *)
(* returns a table of exactly n rows and the 9 columns in the stated       *)
(* order, with a number in every cell.                                     *)
C1_Shape ==
  /\ Raised("generate_healthy") => n_healthy < 0
  /\ Raised("generate_infected") => n_infected < 0
  /\ Past("generate_healthy") => IsTable(healthy, n_healthy, NineColumns)
  /\ Past("generate_infected") => IsTable(infected, n_infected, NineColumns)

C1_Witness ==
  /\ pc = "concat"
  /\ n_healthy = 0
  /\ n_infected = 2
  /\ healthy.columns = NineColumns

(* C2: every row a generator call returns carries the same label: 0 from   *)
(* generate_healthy, 1 from generate_infected.                             *)
C2_LabelPurity ==
  /\ Past("generate_healthy") =>
       \A i \in 1..Len(healthy.values) : healthy.values[i][9] = 0
  /\ Past("generate_infected") =>
       \A i \in 1..Len(infected.values) : infected.values[i][9] = 1

C2_Witness ==
  /\ pc = "concat"
  /\ Len(healthy.values) = 2
  /\ Len(infected.values) = 2

(* C3: a generator called with a negative count fails with ValueError      *)
(* (Python's invalid-argument error) and returns no table.                 *)
C3_NegativeCount ==
  /\ n_healthy < 0 =>
       /\ pc = "generate_healthy"
       /\ error = "ValueError"
       /\ healthy = NoFrame
  /\ n_infected < 0 =>
       /\ pc = "generate_infected"
       /\ error = "ValueError"
       /\ infected = NoFrame

C3_Witness ==
  /\ n_infected < 0
  /\ n_healthy > 0
  /\ error = "ValueError"

(* C4: the dataset has n_healthy + n_infected rows in generation order     *)
(* (healthy block, then infected block), labelled 0..N-1 without           *)
(* duplicates; its feature table has the 8 feature columns, and its label  *)
(* vector is n_healthy zeros followed by n_infected ones.                  *)
C4_Dataset ==
  Past("concat") =>
    LET N == n_healthy + n_infected
        X == Drop(data, "infection")
        y == Column(data, "infection")
    IN /\ IsTable(X, N, EightColumns)
       /\ Len(y) = N
       /\ \A i \in 1..N : y[i] = (IF i <= n_healthy THEN 0 ELSE 1)
       /\ \A i \in 1..n_healthy : data.values[i] = healthy.values[i]
       /\ \A i \in 1..n_infected : data.values[n_healthy + i] = infected.values[i]
       /\ \A i \in 1..N : X.values[i] = SubSeq(data.values[i], 1, 8)
       /\ data.index = [i \in 1..N |-> i - 1]
       /\ X.index = data.index

C4_Witness ==
  /\ pc = "split"
  /\ n_healthy = 2
  /\ n_infected = 1
  /\ Len(data.values) = 3

(* C5: after the split, position k of y_train (y_test) holds the pre-split *)
(* label of the dataset row whose features are at position k of X_train    *)
(* (X_test).                                                               *)
Together(X, y) ==
  /\ Len(y) = Len(X.values)
  /\ \A k \in 1..Len(y) :
       LET row == data.values[X.index[k] + 1]
       IN /\ X.values[k] = SubSeq(row, 1, 8)
          /\ y[k] = row[9]

C5_TravelTogether ==
  Past("split") => Together(X_train, y_train) /\ Together(X_test, y_test)

C5_Witness ==
  /\ pc = "fit"
  /\ Len(y_train) >= 2
  /\ \E j, k \in 1..Len(y_train) : y_train[j] # y_train[k]
  /\ X_train.index # [k \in 1..Len(y_train) |-> k - 1]

(* C6: the split is a partition of the dataset rows: no row is in both     *)
(* parts and every row is in exactly one of them.                          *)
C6_Partition ==
  Past("split") =>
    /\ Range(X_train.index) \cap Range(X_test.index) = {}
    /\ Range(X_train.index) \cup Range(X_test.index) = Range(data.index)
    /\ Len(X_train.index) + Len(X_test.index) = Len(data.index)

C6_Witness ==
  /\ pc = "fit"
  /\ Len(X_test.index) >= 2
  /\ Len(X_train.index) >= 2

(* round(n * 0.2) and ceil(n * 0.2), from their definitions *)
RoundFifth(n) == CHOOSE m \in 0..n : 10 * m - 5 <= 2 * n /\ 2 * n < 10 * m + 5

CeilFifth(n) == CHOOSE m \in 0..n : 10 * (m - 1) < 2 * n /\ 2 * n <= 10 * m

(* C7 as stated: the test part has round(n * 0.2) rows, the train part the *)
(* remaining n - round(n * 0.2).                                           *)
C7_RoundedSizes ==
  Past("split") =>
    LET n == Len(data.values)
    IN /\ Len(X_test.values) = RoundFifth(n)
       /\ Len(X_train.values) = n - RoundFifth(n)

(* C7 amended: a split that succeeds gives the test part ceil(n * 0.2)     *)
(* rows and the train part the remaining n - ceil(n * 0.2); 1000 rows give *)
(* 200 and 800.                                                            *)
C7_CeilSizes ==
  /\ NTest(1000) = 200
  /\ Past("split") =>
       LET n == Len(data.values)
       IN /\ Len(X_test.values) = CeilFifth(n)
          /\ Len(X_train.values) = n - CeilFifth(n)
          /\ Len(y_test) = CeilFifth(n)
          /\ Len(y_train) = n - CeilFifth(n)

C7_Witness ==
  /\ pc = "fit"
  /\ Len(data.values) = 6
  /\ Len(X_test.values) = 2
  /\ Len(X_train.values) = 4

(* C8: a run seeded like the previous run and making the same generator    *)
(* calls builds the same dataset, and a split of the same dataset (the     *)
(* split seed being the same) puts every row in the same part.             *)
C8_Determinism ==
  /\ ( /\ prev.valid
       /\ Past("concat")
       /\ prev.seed = seed
       /\ prev.n_healthy = n_healthy
       /\ prev.n_infected = n_infected ) => data = prev.data
  /\ ( /\ prev.valid
       /\ Past("split")
       /\ prev.data = data ) =>
         /\ X_train = prev.X_train
         /\ X_test = prev.X_test
         /\ y_train = prev.y_train
         /\ y_test = prev.y_test

C8_Witness ==
  /\ prev.valid
  /\ pc = "fit"
  /\ prev.seed = seed
  /\ prev.n_healthy = n_healthy
  /\ prev.n_infected = n_infected
  /\ n_healthy >= 1
  /\ n_infected >= 1
  /\ data = prev.data

SeedCalls == {i \in DOMAIN rng.log : rng.log[i].op = "seed"}

(* C9: the global generator is seeded exactly once in a run, before the    *)
(* first sampling call, and no later stage seeds it again.                 *)
C9_SeededOnce ==
  /\ Cardinality(SeedCalls) <= 1
  /\ rng.log # <<>> => rng.log[1].op = "seed"
  /\ pc # "seed" => SeedCalls = {1}

C9_Witness ==
  /\ pc = "done"
  /\ SeedCalls = {1}
  /\ Len(rng.log) = 17
  /\ n_healthy + n_infected >= 2

(* C10: in both regimes every derived column of row i is that row's base   *)
(* value combined with that row's own draw.                                *)
Derived(df, draws) ==
  \A i \in 1..Len(df.values) :
    LET row == df.values[i]
    IN /\ row[2] = row[1] * draws.ratio[i]
       /\ row[4] = row[3] + draws.temp_noise[i]
       /\ row[6] = row[5] + draws.resp_noise[i]
       /\ row[7] = row[5] * draws.factor[i]
       /\ row[8] = row[7] + draws.pulse_noise[i]

C10_Derived ==
  /\ Past("generate_healthy") => Derived(healthy, sampled.healthy)
  /\ Past("generate_infected") => Derived(infected, sampled.infected)

C10_Witness ==
  /\ pc = "concat"
  /\ Len(healthy.values) >= 2
  /\ Len(infected.values) >= 2
  /\ sampled.healthy.ratio[1] # sampled.healthy.ratio[2]
  /\ sampled.infected.factor[1] # sampled.infected.factor[2]

(* The loc and scale of the eight draws of a generator call, in the order  *)
(* of the calls and in the units of the columns: what the documentation    *)
(* of the two regimes says they are.                                       *)
HealthyParams ==
  << <<105, 10>>, <<200, 3>>, <<3670, 5>>, <<0, 1>>,
     <<140, 8>>, <<0, 5>>, <<55, 2>>, <<0, 400>> >>

InfectedParams ==
  << <<105, 10>>, <<200, 3>>, <<3670, 5>>, <<0, 1>>,
     <<140, 8>>, <<15, 4>>, <<55, 2>>, <<1000, 500>> >>

(* the loc and scale of the k-th sampling call after the first calls *)
ParamsAt(first, k) == << rng.log[first + k].loc, rng.log[first + k].scale >>

(* C11: the label alone selects the noise regime: the healthy call draws   *)
(* respiration noise from Normal(0, 0.5) and pulse noise from Normal(0, 4) *)
(* and labels its rows 0, the infected call draws them from                *)
(* Normal(1.5, 0.4) and Normal(10, 5) and labels its rows 1, and the six   *)
(* other draws have the same parameters in both.                           *)
C11_NoiseRegime ==
  /\ Past("generate_healthy") =>
       /\ \A k \in 1..8 : ParamsAt(1, k) = HealthyParams[k]
       /\ \A i \in 1..Len(healthy.values) : healthy.values[i][9] = 0
  /\ Past("generate_infected") =>
       /\ \A k \in 1..8 : ParamsAt(9, k) = InfectedParams[k]
       /\ \A i \in 1..Len(infected.values) : infected.values[i][9] = 1
       /\ \A k \in 1..8 : k \notin {6, 8} => ParamsAt(9, k) = ParamsAt(1, k)
       /\ ParamsAt(9, 6) # ParamsAt(1, 6)
       /\ ParamsAt(9, 8) # ParamsAt(1, 8)

C11_Witness ==
  /\ pc = "concat"
  /\ Len(healthy.values) >= 1
  /\ Len(infected.values) >= 1
  /\ sampled.healthy.resp_noise[1] \in {v \in -30..30 : v % 5 = 0}
  /\ sampled.infected.resp_noise[1] \in {15 + 4 * z : z \in -6..6}
  /\ sampled.infected.pulse_noise[1] \in {1000 + 500 * z : z \in -6..6}

(* diastolic/systolic of a row within 0.05 of 0.667: the diastolic column  *)
(* is in 1/300 of the systolic unit, so the quotient is row[2]/(300*row[1]) *)
(* and the band 0.617..0.717 is 185.1..215.1 in that unit.                 *)
InBand(row) ==
  /\ 1851 * row[1] <= 10 * row[2]
  /\ 10 * row[2] <= 2151 * row[1]

AllInBand(df) == \A i \in 1..Len(df.values) : InBand(df.values[i])

(* C12 as stated: for every generated record of both regimes,              *)
(* diastolic_pressure / systolic_pressure is within 5 * 0.01 of 0.667.     *)
C12_Band ==
  /\ Past("generate_healthy") => AllInBand(healthy)
  /\ Past("generate_infected") => AllInBand(infected)

(* a draw of the ratio within 0.05 of 0.667 *)
DrawInBand(ratio) == 1851 <= 10 * ratio /\ 10 * ratio <= 2151

Coupled(df, draws) ==
  \A i \in 1..Len(df.values) :
    LET row == df.values[i]
    IN row[1] > 0 =>
         /\ row[2] = row[1] * draws.ratio[i]
         /\ InBand(row) <=> DrawInBand(draws.ratio[i])

(* C12, amended: in both regimes the quotient diastolic/systolic of a      *)
(* record is that record's own draw from Normal(2/3, 0.01), so it is in    *)
(* the band exactly when the draw is.                                      *)
C12_Coupled ==
  /\ Past("generate_healthy") => Coupled(healthy, sampled.healthy)
  /\ Past("generate_infected") => Coupled(infected, sampled.infected)

C12_Witness ==
  /\ pc = "concat"
  /\ \E i \in 1..Len(healthy.values) : InBand(healthy.values[i])
  /\ \E i \in 1..Len(healthy.values) : ~InBand(healthy.values[i])
  /\ \E i \in 1..Len(infected.values) : InBand(infected.values[i])

(* the deviate of the k-th draw after seeding with s *)
DrawAfterSeed(s, k) == Gauss(Advance(SeedState(s), k))

(* the eight sampling calls after the first calls are batches of n draws   *)
(* with the parameters params, in order                                    *)
EightBatches(first, params, n) ==
  \A k \in 1..8 :
    rng.log[first + k] = Call("normal", params[k][1], params[k][2], n)

(* what the k-th batch of a generator call was drawn for: the systolic     *)
(* pressure, the diastolic ratio, the daily average body temperature, the  *)
(* body temperature noise, the daily average respiration rate, the         *)
(* respiration noise, the respiration-to-pulse factor, the pulse noise     *)
Batch(df, draws, k) ==
  CASE k = 1 -> [i \in 1..Len(df.values) |-> df.values[i][1]]
    [] k = 2 -> draws.ratio
    [] k = 3 -> [i \in 1..Len(df.values) |-> df.values[i][3]]
    [] k = 4 -> draws.temp_noise
    [] k = 5 -> [i \in 1..Len(df.values) |-> df.values[i][5]]
    [] k = 6 -> draws.resp_noise
    [] k = 7 -> draws.factor
    [] k = 8 -> draws.pulse_noise

(* the batches of a call for n records hold, in order, the draws of the    *)
(* stream of seed s that follow the consumed ones                          *)
InStreamOrder(df, draws, params, s, consumed, n) ==
  \A k \in 1..8 :
    /\ Len(Batch(df, draws, k)) = n
    /\ \A i \in 1..n :
         Batch(df, draws, k)[i] =
           params[k][1] + params[k][2] * DrawAfterSeed(s, consumed + (k - 1) * n + i)

(* C13: the generator is consumed in one fixed order: after the seeding,   *)
(* the healthy call takes its eight batches of n_healthy draws (systolic,  *)
(* ratio, daily temperature, temperature noise, daily respiration,         *)
(* respiration noise, pulse factor, pulse noise) before the infected call  *)
(* takes its eight batches of n_infected draws in the same order, and      *)
(* nothing else draws from it until the dataset is built and split.        *)
C13_DrawOrder ==
  /\ Past("generate_healthy") =>
       /\ rng.log[1].op = "seed"
       /\ EightBatches(1, HealthyParams, n_healthy)
       /\ InStreamOrder(healthy, sampled.healthy, HealthyParams, seed, 0, n_healthy)
       /\ pc = "generate_infected" =>
            /\ Len(rng.log) = 9
            /\ rng.st = Advance(SeedState(seed), 8 * n_healthy)
  /\ pc \in {"concat", "split", "fit"} =>
       /\ EightBatches(9, InfectedParams, n_infected)
       /\ InStreamOrder(infected, sampled.infected, InfectedParams, seed,
                        8 * n_healthy, n_infected)
       /\ Len(rng.log) = 17
       /\ rng.st = Advance(SeedState(seed), 8 * (n_healthy + n_infected))

C13_Witness ==
  /\ pc = "fit"
  /\ n_healthy >= 2
  /\ n_infected >= 2
  /\ Len(rng.log) = 17
  /\ healthy.values[1][1] # healthy.values[2][1]
  /\ infected.values[1][1] # healthy.values[1][1]

(* C14: once the cohort tables are concatenated no later stage changes the *)
(* dataset (its cells, row order, row labels and column set), and once the *)
(* split is made no later stage changes the train and test tables and      *)
(* label arrays.                                                           *)
C14_Immutable ==
  [][ /\ Past("concat") => data' = data
      /\ Past("split") => /\ X_train' = X_train
                          /\ X_test' = X_test
                          /\ y_train' = y_train
                          /\ y_test' = y_test ]_vars

C14_Witness ==
  /\ pc = "done"
  /\ Len(data.values) >= 2
  /\ data.columns = COLUMNS
  /\ Len(X_train.values) + Len(X_test.values) = Len(data.values)
  /\ Len(plots) = 7

(* C15 as stated: the arrays handed from one stage to the next have the    *)
(* same number of records (an inconsistent hand-off does not proceed), and *)
(* every explanation plot made received attribution rows and feature rows  *)
(* equal in number and describing the same records.                        *)
C15_Consistent ==
  /\ Past("split") => /\ Len(X_train.values) = Len(y_train)
                      /\ Len(X_test.values) = Len(y_test)
  /\ Past("explain") => Len(shap_values) = Len(X_test.values)
  /\ \A p \in 1..Len(plots) :
       /\ Len(plots[p].attributions) = Len(plots[p].features)
       /\ plots[p].attributions = plots[p].features

(* the number of positions of a sequence holding v *)
Count(xs, v) == Cardinality({k \in DOMAIN xs : xs[k] = v})

(* the importance the model gives the feature column called name *)
ImportanceOf(name) == clf.feature_importances_[Loc(data.columns, name)]

(* C16: in the feature-importance chart, names[k] is a feature whose model *)
(* importance is values[k], values is ascending, each of the 8 feature     *)
(* columns is named exactly once and the label column never, also when     *)
(* importances are equal.                                                  *)
C16_Aligned ==
  Past("importance") =>
    /\ Len(values) = 8
    /\ Len(names) = 8
    /\ \A k \in 1..8 : values[k] = ImportanceOf(names[k])
    /\ \A k \in 1..7 : values[k] <= values[k + 1]
    /\ \A c \in 1..8 : Count(names, data.columns[c]) = 1
    /\ Count(names, "infection") = 0

(* importances with ties and without, after the chart is drawn *)
C16_Witness ==
  /\ pc = "explain"
  /\ \E a, b \in 1..8 : a # b /\ values[a] = values[b] /\ values[a] > 0
  /\ \E a, b, c \in 1..8 : values[a] < values[b] /\ values[b] < values[c]
  /\ names # SubSeq(data.columns, 1, 8)

(* the positions, counted from 0, of the test records the model calls      *)
(* healthy although they are infected                                      *)
FalseNegatives ==
  {k \in 0..(Len(y_test) - 1) : y_test[k + 1] = 1 /\ clf.predict_test[k + 1] = 0}

(* C17 as stated: when the selection of cell 46 succeeds the record at     *)
(* index is a false negative, and the selection succeeds whenever the      *)
(* model makes at least one false negative prediction on the test set.     *)
C17_FalseNegative ==
  /\ Past("local_error") => index \in FalseNegatives
  /\ Raised("local_error") => FalseNegatives = {}

====
